---- MODULE Spec2Model ----
(***************************************************************************)
(* State-machine model of find-key-3rd.js: the checksum search loop of     *)
(* main, the lookup client submitChecksum and the report-file parser       *)
(* parseChecksumFile.  One action per run-to-await segment of main.        *)
(***************************************************************************)
EXTENDS Integers, Sequences, FiniteSets, TLC

\* ------------------------------------------------------------------ bounds
\* Largest number of lines of the report file.
MaxLines == 2

\* ------------------------------------------------------- JavaScript values
\* A JavaScript value as [t |-> type, v |-> text of a primitive, key |-> the
\* text of the value's "key" property, kt |-> the type of that property,
\* id |-> the remaining fields of an object, passed through opaquely].
JsVal(t, v, kt, key, id) == [t |-> t, v |-> v, kt |-> kt, key |-> key, id |-> id]

\* A primitive value or a missing property.
Prim(t, v) == JsVal(t, v, "undefined", "", "")

\* An object parsed from a response body, with its key property and the
\* text of its other fields.
Obj(kt, key, id) == JsVal("object", "", kt, key, id)

Undefined == Prim("undefined", "")
Null == Prim("null", "")

\* The types and texts a "key" property takes in the model: missing, the
\* strings "", "X", "x" and "X ", the number 5, true, and an object.
KeyValues ==
    { <<"undefined", "">>, <<"str", "">>, <<"str", "X">>, <<"str", "x">>,
      <<"str", "X ">>, <<"num", "5">>, <<"bool", "true">>, <<"object", "{}">> }

\* The JSON bodies a response carries in the model.
Bodies ==
    { Null, Prim("bool", "false"), Prim("num", "0"), Prim("str", ""),
      Prim("num", "7") }
    \cup { Obj(k[1], k[2], id) : k \in KeyValues, id \in {"a", "b"} }

\* JavaScript truthiness, the test of `!response1` and of `response1.key &&`.
Truthy(x) ==
    /\ x.t \notin {"undefined", "null"}
    /\ ~(x.t = "bool" /\ x.v = "false")
    /\ ~(x.t = "num" /\ x.v = "0")
    /\ ~(x.t = "str" /\ x.v = "")

\* The property access `response.key`: the property of an object, undefined
\* on every other (truthy) value.
GetKey(x) == IF x.t = "object" THEN Prim(x.kt, x.key) ELSE Undefined

\* The operator ===: primitives are equal when type and text agree, two
\* objects parsed from two bodies are never the same object.
StrictEquals(a, b) == a.t # "object" /\ a.t = b.t /\ a.v = b.v

\* ------------------------------------------------------- the lookup client
\* What one HTTP exchange does: fetch rejects ("neterr"), the status is not
\* OK ("status"), response.json() rejects ("badjson"), or a body is parsed.
Replies ==
    { [kind |-> k, body |-> Null] : k \in {"neterr", "status", "badjson"} }
    \cup { [kind |-> "json", body |-> b] : b \in Bodies }

NoReply == [kind |-> "none", body |-> Undefined]

\* submitChecksum: null on a network error, a non-OK status or a body that
\* does not parse, the parsed body otherwise.
submitChecksum(reply) ==
    CASE reply.kind = "neterr" -> Null
      [] reply.kind = "status" -> Null
      [] reply.kind = "badjson" -> Null
      [] OTHER -> reply.body

\* ------------------------------------------------------- the report parser
\* A character is a one-character string; a character that a string of
\* this language cannot hold is written as its escape, "\\uXXXX".
\* IsSpace: the characters String.prototype.trim strips, which are the
\* ECMAScript WhiteSpace (U+0009 tab, U+000B vertical tab, U+000C form feed,
\* U+0020 space, U+00A0 no-break space, U+FEFF and the space separators
\* U+1680, U+2000..U+200A, U+202F, U+205F, U+3000) and LineTerminator
\* (U+000A, U+000D, U+2028, U+2029) characters.
IsSpace(c) ==
    c \in { "\t", "", "\f", " ", " ", "﻿", " ", "\n", "\r",
            "\\u2000", "\\u2001", "\\u2002", "\\u2003", "\\u2004", "\\u2005",
            "\\u2006", "\\u2007", "\\u2008", "\\u2009", "\\u200A", "\\u2028",
            "\\u2029", "\\u202F", "\\u205F", "\\u3000" }

RECURSIVE TrimStart(_)
TrimStart(s) ==
    IF s # <<>> /\ IsSpace(Head(s)) THEN TrimStart(Tail(s)) ELSE s

RECURSIVE TrimEnd(_)
TrimEnd(s) ==
    IF s # <<>> /\ IsSpace(s[Len(s)]) THEN TrimEnd(SubSeq(s, 1, Len(s) - 1)) ELSE s

\* String.prototype.trim
Trim(s) == TrimEnd(TrimStart(s))

\* line.split(","): the fields between the commas, one field when there is
\* no comma (also for the empty line).
RECURSIVE Split(_)
Split(line) ==
    IF \E i \in 1..Len(line) : line[i] = ","
    THEN LET i == CHOOSE j \in 1..Len(line) :
                      /\ line[j] = ","
                      /\ \A k \in 1..(j - 1) : line[k] # ","
         IN  <<SubSeq(line, 1, i - 1)>> \o Split(SubSeq(line, i + 1, Len(line)))
    ELSE <<line>>

\* The "line" handler: a line of exactly two fields whose second field is
\* a non-empty string contributes that field, trimmed.
OnLine(checksums, line) ==
    LET parts == Split(line)
    IN  IF Len(parts) = 2 /\ parts[2] # <<>>
        THEN Append(checksums, Trim(parts[2]))
        ELSE checksums

RECURSIVE ReadLines(_, _)
ReadLines(checksums, lines) ==
    IF lines = <<>> THEN checksums
    ELSE ReadLines(OnLine(checksums, Head(lines)), Tail(lines))

\* parseChecksumFile on an existing file, given as its lines.
parseChecksumFile(lines) == ReadLines(<<>>, lines)

\* The lines a report file is made of in the model.
ReportLines ==
    { <<"f", ",", "A">>, <<"g", ",", " ", "B", "\f">>, <<"f", ",", " ">>,
      <<"f">> }

RECURSIVE SeqsUpTo(_, _)
SeqsUpTo(S, n) ==
    IF n = 0 THEN {<<>>}
    ELSE LET shorter == SeqsUpTo(S, n - 1)
         IN  shorter \cup { Append(s, x) : s \in shorter, x \in S }

ReportFiles == SeqsUpTo(ReportLines, MaxLines)


\* --------------------------------------------------------------- the state
VARIABLES
    pc,             \* where main stands: "ask", "reading", "await1", "await2",
                    \* or ended: "exited", "returned", "rejected"
    fileExists,     \* whether the report path names an existing file
    fileLines,      \* the lines of the report file
    checksums,      \* const checksums: the parsed tokens
    idx,            \* the position of the for-of loop in checksums (from 1)
    processedCount, \* let processedCount
    matchFound,     \* let matchFound
    response1,      \* const response1 of the running iteration
    response2,      \* const response2 of the running iteration
    sinkOpened,     \* number of fs.createWriteStream calls for failed.txt
    sinkWrites,     \* the tokens given to failedStream.write, in order
    sinkEnded,      \* number of failedStream.end calls
    sinkFlushed,    \* how many of sinkWrites have reached the file failed.txt
    outcome,        \* the final report printed to the console
    calls,          \* per token position, the submitChecksum calls made
    hist,           \* per token position, the classes of the replies received
    verdict,        \* per token position, what its pair of replies amounts to
    inflight,       \* number of requests sent and not yet answered
    lastReply       \* the HTTP exchange that completed last

vars ==
    << pc, fileExists, fileLines, checksums, idx, processedCount, matchFound,
       response1, response2, sinkOpened, sinkWrites, sinkEnded, sinkFlushed,
       outcome, calls, hist, verdict, inflight, lastReply >>

\* const totalChecksums = checksums.length
totalChecksums == Len(checksums)

\* The final console report: nothing yet, "Match Found!" with the checksum
\* and JSON.stringify(response1), "Search complete. No matching key was
\* found.", "No checksums found in the specified file.", or the error
\* printed by main().catch.
Report(kind, checksum, result) ==
    [kind |-> kind, checksum |-> checksum, result |-> result]

NoReport == Report("none", <<>>, Undefined)

\* How one reply reads at the level of the HTTP exchange: "transport" (no
\* OK status or no parseable body), "falsy" (OK status, parseable body that
\* is null, false, 0 or ""), "usable" (OK status, any other body).
Class(reply) ==
    IF reply.kind # "json" THEN "transport"
    ELSE IF Truthy(reply.body) THEN "usable" ELSE "falsy"

\* The keys of two parsed bodies are both non-empty and identical, with no
\* case folding, trimming or prefix matching.
KeysAgree(b1, b2) ==
    /\ b1.t = "object" /\ b2.t = "object"
    /\ ~(b1.kt \in {"undefined", "null"}) /\ ~(b2.kt \in {"undefined", "null"})
    /\ b1.key # "" /\ b2.key # ""
    /\ b1.kt # "object" /\ b2.kt # "object"
    /\ b1.kt = b2.kt /\ b1.key = b2.key

\* The decision a pair of replies amounts to.
Decide(reply1, reply2) ==
    IF Class(reply1) # "usable" \/ Class(reply2) # "usable" THEN "TransientFailure"
    ELSE IF KeysAgree(reply1.body, reply2.body) THEN "Match"
    ELSE "NoMatch"

Init ==
    /\ pc = "ask"
    /\ fileExists \in BOOLEAN
    /\ fileLines \in (IF fileExists THEN ReportFiles ELSE {<<>>})
    /\ checksums = <<>>
    /\ idx = 0
    /\ processedCount = 0
    /\ matchFound = FALSE
    /\ response1 = Undefined
    /\ response2 = Undefined
    /\ sinkOpened = 0
    /\ sinkWrites = <<>>
    /\ sinkEnded = 0
    /\ sinkFlushed = 0
    /\ outcome = NoReport
    /\ calls = <<>>
    /\ hist = <<>>
    /\ verdict = <<>>
    /\ inflight = 0
    /\ lastReply = NoReply

\* ------------------------------------------------------------- the actions
\* LogFailure without the processedCount++.
LogFailureNoCount ==
    /\ sinkWrites' = Append(sinkWrites, checksums[idx])
    /\ UNCHANGED processedCount

\* LogFailure without the write to failedStream.
LogFailureNoWrite ==
    /\ UNCHANGED sinkWrites
    /\ processedCount' = processedCount + 1

\* LogFailure writing the checksum to failedStream twice.
LogFailureTwice ==
    /\ sinkWrites' = Append(Append(sinkWrites, checksums[idx]), checksums[idx])
    /\ processedCount' = processedCount + 1

\* failedStream.write(`${checksum}\n`); processedCount++ : the body of both
\* failure branches.
LogFailure ==
    /\ sinkWrites' = Append(sinkWrites, checksums[idx])
    /\ processedCount' = processedCount + 1

\* The first failure check left out: the second lookup is sent regardless.
FirstFailedNever(r1) == FALSE

\* if (!response1): the first lookup gave nothing usable.
FirstFailed(r1) == ~Truthy(r1)

\* if (!response2): the second lookup gave nothing usable.
SecondFailed(r2) == ~Truthy(r2)

\* A key with its letters folded to lower case.
Folded(k) == IF k.t = "str" /\ k.v = "X" THEN Prim("str", "x") ELSE k

\* IsMatch comparing the keys without regard to case.
IsMatchFolded(r1, r2) ==
    /\ Truthy(GetKey(r1))
    /\ Truthy(GetKey(r2))
    /\ StrictEquals(Folded(GetKey(r1)), Folded(GetKey(r2)))

\* response1.key && response2.key && response1.key === response2.key
IsMatch(r1, r2) ==
    /\ Truthy(GetKey(r1))
    /\ Truthy(GetKey(r2))
    /\ StrictEquals(GetKey(r1), GetKey(r2))

\* LoopHead sending both lookups of the next checksum at once.
LoopHeadEager(i, found, out) ==
    /\ response1' = Undefined
    /\ response2' = Undefined
    /\ IF i <= totalChecksums /\ ~found
       THEN /\ idx' = i
            /\ calls' = [calls EXCEPT ![i] = @ + 2]
            /\ inflight' = out + 2
            /\ pc' = "await1"
            /\ UNCHANGED <<sinkEnded, outcome>>
       ELSE /\ inflight' = out
            /\ UNCHANGED <<idx, calls>>
            /\ outcome' = Report("Exhausted", <<>>, Undefined)
            /\ sinkEnded' = sinkEnded + 1
            /\ pc' = "exited"

\* LoopHead that submits the previous checksum once more when its first
\* lookup was its only one.
LoopHeadRetry(i, found, out) ==
    LET j == IF i > 1 /\ calls[i - 1] = 1 THEN i - 1 ELSE i
    IN  /\ response1' = Undefined
        /\ response2' = Undefined
        /\ IF j <= totalChecksums /\ ~found
           THEN /\ idx' = j
                /\ calls' = [calls EXCEPT ![j] = @ + 1]
                /\ inflight' = out + 1
                /\ pc' = "await1"
                /\ UNCHANGED <<sinkEnded, outcome>>
           ELSE /\ inflight' = out
                /\ UNCHANGED <<idx, calls>>
                /\ outcome' = Report("Exhausted", <<>>, Undefined)
                /\ sinkEnded' = sinkEnded + 1
                /\ pc' = "exited"

\* LoopHead with the test after the loop inverted: no exhaustion report.
LoopHeadNoReport(i, found, out) ==
    /\ response1' = Undefined
    /\ response2' = Undefined
    /\ IF i <= totalChecksums /\ ~found
       THEN /\ idx' = i
            /\ calls' = [calls EXCEPT ![i] = @ + 1]
            /\ inflight' = out + 1
            /\ pc' = "await1"
            /\ UNCHANGED <<sinkEnded, outcome>>
       ELSE /\ inflight' = out
            /\ pc' = "returned"
            /\ UNCHANGED <<idx, calls, sinkEnded, outcome>>

\* The head of the for-of loop at position i with `answered` requests still
\* out: the first lookup of the next checksum is sent, or, past the last
\* checksum (or on break), the code after the loop runs: the exhaustion
\* report, failedStream.end() and process.exit(0) when no match was found.
LoopHead(i, found, out) ==
    /\ response1' = Undefined
    /\ response2' = Undefined
    /\ IF i <= totalChecksums /\ ~found
       THEN /\ idx' = i
            /\ calls' = [calls EXCEPT ![i] = @ + 1]
            /\ inflight' = out + 1
            /\ pc' = "await1"
            /\ UNCHANGED <<sinkEnded, outcome>>
       ELSE /\ inflight' = out
            /\ UNCHANGED <<idx, calls>>
            /\ IF ~found
               THEN /\ outcome' = Report("Exhausted", <<>>, Undefined)
                    /\ sinkEnded' = sinkEnded + 1
                    /\ pc' = "exited"
               ELSE /\ pc' = "returned"
                    /\ UNCHANGED <<sinkEnded, outcome>>

\* MatchBranch that prints the report but neither sets matchFound nor exits:
\* the loop goes on to the next checksum.
MatchBranchNoHalt(r2) ==
    /\ outcome' = Report("MatchFound", checksums[idx], response1)
    /\ IF idx < totalChecksums
       THEN /\ idx' = idx + 1
            /\ calls' = [calls EXCEPT ![idx + 1] = @ + 1]
            /\ inflight' = (inflight - 1) + 1
            /\ pc' = "await1"
            /\ response1' = Undefined
            /\ response2' = Undefined
            /\ UNCHANGED <<matchFound, sinkEnded>>
       ELSE /\ matchFound' = TRUE
            /\ sinkEnded' = sinkEnded + 1
            /\ pc' = "exited"
            /\ response2' = r2
            /\ inflight' = inflight - 1
            /\ UNCHANGED <<idx, calls, response1>>
    /\ UNCHANGED <<processedCount, sinkWrites>>

\* MatchBranch that reports the second payload and counts the matching
\* token as processed.
MatchBranchSecond(r2) ==
    /\ matchFound' = TRUE
    /\ outcome' = Report("MatchFound", checksums[idx], r2)
    /\ processedCount' = processedCount + 1
    /\ sinkEnded' = sinkEnded + 1
    /\ pc' = "exited"
    /\ response2' = r2
    /\ inflight' = inflight - 1
    /\ UNCHANGED <<idx, calls, sinkWrites, response1>>

\* The match branch: matchFound = true, the report of the checksum and of
\* response1, failedStream.end() and process.exit(0).
MatchBranch(r2) ==
    /\ matchFound' = TRUE
    /\ outcome' = Report("MatchFound", checksums[idx], response1)
    /\ sinkEnded' = sinkEnded + 1
    /\ pc' = "exited"
    /\ response2' = r2
    /\ inflight' = inflight - 1
    /\ UNCHANGED <<idx, calls, processedCount, sinkWrites, response1>>

\* NoMatchBranch that also logs the checksum as failed.
NoMatchBranchLogged ==
    /\ processedCount' = processedCount + 1
    /\ sinkWrites' = Append(sinkWrites, checksums[idx])
    /\ LoopHead(idx + 1, matchFound, inflight - 1)
    /\ UNCHANGED matchFound

\* NoMatchBranch counting the checksum twice.
NoMatchBranchDouble ==
    /\ processedCount' = processedCount + 2
    /\ LoopHead(idx + 1, matchFound, inflight - 1)
    /\ UNCHANGED <<matchFound, sinkWrites>>

\* The else branch: not a match, not a failure; only the progress moves.
NoMatchBranch ==
    /\ processedCount' = processedCount + 1
    /\ LoopHead(idx + 1, matchFound, inflight - 1)
    /\ UNCHANGED <<matchFound, sinkWrites>>

\* The path is answered: the write stream on failed.txt is created and
\* parseChecksumFile is called; it rejects at once when the file is missing,
\* and main().catch prints the error.
AnswerPath ==
    /\ pc = "ask"
    /\ sinkOpened' = sinkOpened + 1
    /\ IF fileExists
       THEN pc' = "reading" /\ UNCHANGED outcome
       ELSE pc' = "rejected" /\ outcome' = Report("Error", <<>>, Undefined)
    /\ UNCHANGED << fileExists, fileLines, checksums, idx, processedCount,
                    matchFound, response1, response2, sinkWrites, sinkEnded,
                    sinkFlushed, calls, hist, verdict, inflight, lastReply >>

\* The reader closes: parseChecksumFile resolves with the checksums. With
\* none, main prints "No checksums found" and returns; otherwise the loop
\* starts and the first lookup is sent.
ReadClose ==
    /\ pc = "reading"
    /\ checksums' = parseChecksumFile(fileLines)
    /\ IF Len(checksums') = 0
       THEN /\ pc' = "returned"
            /\ outcome' = Report("NoChecksums", <<>>, Undefined)
            /\ UNCHANGED <<idx, calls, hist, verdict, inflight>>
       ELSE /\ idx' = 1
            /\ calls' = [i \in 1..Len(checksums') |-> IF i = 1 THEN 1 ELSE 0]
            /\ hist' = [i \in 1..Len(checksums') |-> <<>>]
            /\ verdict' = [i \in 1..Len(checksums') |-> "pending"]
            /\ inflight' = 1
            /\ pc' = "await1"
            /\ UNCHANGED outcome
    /\ UNCHANGED << fileExists, fileLines, processedCount, matchFound,
                    response1, response2, sinkOpened, sinkWrites, sinkEnded,
                    sinkFlushed, lastReply >>

\* The reader fails: parseChecksumFile rejects, main().catch prints the error.
ReadError ==
    /\ pc = "reading"
    /\ pc' = "rejected"
    /\ outcome' = Report("Error", <<>>, Undefined)
    /\ UNCHANGED << fileExists, fileLines, checksums, idx, processedCount,
                    matchFound, response1, response2, sinkOpened, sinkWrites,
                    sinkEnded, sinkFlushed, calls, hist, verdict, inflight,
                    lastReply >>

\* process.exit(0) right after failedStream.end(): the stream writes are
\* asynchronous, so the chunks not yet in the file race with the exit; any
\* number of them, none included, still reaches the file, the rest is lost.
\* A segment that does not exit leaves the file as it is.
ExitRace ==
    IF pc' = "exited"
    THEN sinkFlushed' \in sinkFlushed..Len(sinkWrites')
    ELSE sinkFlushed' = sinkFlushed

\* The first lookup of the checksum at idx is answered.
Response1(reply) ==
    /\ pc = "await1"
    /\ lastReply' = reply
    /\ hist' = [hist EXCEPT ![idx] = Append(@, Class(reply))]
    /\ LET r1 == submitChecksum(reply)
       IN  IF FirstFailed(r1)
           THEN /\ LogFailure
                /\ LoopHead(idx + 1, matchFound, inflight - 1)
                /\ verdict' = [verdict EXCEPT ![idx] = "TransientFailure"]
                /\ UNCHANGED matchFound
           ELSE /\ response1' = r1
                /\ calls' = [calls EXCEPT ![idx] = @ + 1]
                /\ inflight' = (inflight - 1) + 1
                /\ pc' = "await2"
                /\ UNCHANGED << idx, processedCount, matchFound, response2,
                                sinkWrites, sinkEnded, outcome, verdict >>
    /\ UNCHANGED <<fileExists, fileLines, checksums, sinkOpened>>
    /\ ExitRace

\* The second lookup of the checksum at idx is answered.
Response2(reply) ==
    /\ pc = "await2"
    /\ lastReply' = reply
    /\ hist' = [hist EXCEPT ![idx] = Append(@, Class(reply))]
    /\ verdict' = [verdict EXCEPT ![idx] = Decide(lastReply, reply)]
    /\ LET r2 == submitChecksum(reply)
       IN  IF SecondFailed(r2)
           THEN /\ LogFailure
                /\ LoopHead(idx + 1, matchFound, inflight - 1)
                /\ UNCHANGED matchFound
           ELSE IF IsMatch(response1, r2)
                THEN MatchBranch(r2)
                ELSE NoMatchBranch
    /\ UNCHANGED <<fileExists, fileLines, checksums, sinkOpened>>
    /\ ExitRace

\* A write of failedStream completes: the oldest chunk still buffered or in
\* flight reaches the file. It happens between two segments of main, while
\* the process is alive.
Flush ==
    /\ pc \in {"await1", "await2"}
    /\ sinkFlushed < Len(sinkWrites)
    /\ sinkFlushed' = sinkFlushed + 1
    /\ UNCHANGED << pc, fileExists, fileLines, checksums, idx, processedCount,
                    matchFound, response1, response2, sinkOpened, sinkWrites,
                    sinkEnded, outcome, calls, hist, verdict, inflight,
                    lastReply >>

Next ==
    \/ AnswerPath
    \/ ReadClose
    \/ ReadError
    \/ \E reply \in Replies : Response1(reply)
    \/ \E reply \in Replies : Response2(reply)
    \/ Flush

Spec == Init /\ [][Next]_vars

\* The event loop runs every continuation that is ready, the operator
\* answers the prompt, the reader finishes, every lookup returns and every
\* stream write completes while the process lives.
FairSpec ==
    /\ Spec
    /\ WF_vars(AnswerPath)
    /\ WF_vars(ReadClose \/ ReadError)
    /\ WF_vars(\E reply \in Replies : Response1(reply))
    /\ WF_vars(\E reply \in Replies : Response2(reply))
    /\ WF_vars(Flush)

\* The run is over: process.exit was called, main returned or main rejected.
Ended == pc \in {"exited", "returned", "rejected"}

TypeOK ==
    /\ pc \in {"ask", "reading", "await1", "await2", "exited", "returned", "rejected"}
    /\ processedCount \in 0..totalChecksums
    /\ idx \in 0..totalChecksums
    /\ inflight \in 0..1
    /\ matchFound \in BOOLEAN

\* -------------------------------------------------------------- properties
\* The tokens written to the Failure Sink.
SinkTokens == { sinkWrites[j] : j \in 1..Len(sinkWrites) }

\* Token positions, once the file is parsed.
Positions == DOMAIN hist

\* The step that receives the second reply of the token at idx.
SecondReplyStep == pc = "await2" /\ pc' # "await2"

\* The step declares a Match for the token at idx.
MatchDeclared ==
    /\ outcome'.kind = "MatchFound"
    /\ outcome'.checksum = checksums[idx]
    /\ matchFound'
    /\ pc' = "exited"

\* Both keys are strings.
StringKeys(b1, b2) == b1.kt = "str" /\ b2.kt = "str"

\* C1: a Match is declared for a token only on its second reply, and then
\* both lookups succeeded and both keys are non-empty and identical; and
\* whenever both lookups succeeded with non-empty string keys that are equal
\* character for character, a Match is declared. A failed lookup, a missing
\* key or two different keys never give a Match.
C1_MatchRule ==
    [][ /\ (pc # "await2" => outcome'.kind # "MatchFound")
        /\ (SecondReplyStep =>
              /\ (MatchDeclared =>
                    /\ lastReply.kind = "json"
                    /\ lastReply'.kind = "json"
                    /\ KeysAgree(lastReply.body, lastReply'.body))
              /\ ((/\ lastReply.kind = "json"
                   /\ lastReply'.kind = "json"
                   /\ StringKeys(lastReply.body, lastReply'.body)
                   /\ KeysAgree(lastReply.body, lastReply'.body)) => MatchDeclared)
              /\ (~MatchDeclared => outcome'.kind # "MatchFound")) ]_vars

\* A Match on the keys "X" and "X" of two different payloads.
C1_Witness ==
    /\ pc = "exited"
    /\ outcome.kind = "MatchFound"
    /\ GetKey(response1) = Prim("str", "X")
    /\ GetKey(response2) = Prim("str", "X")
    /\ response1.id # response2.id

\* C2: once a Match is reported for the token at position idx, the
\* submitted tokens are exactly the positions up to idx: nothing after the
\* matching token is ever submitted.
C2_EarlyTermination ==
    outcome.kind = "MatchFound" =>
        /\ outcome.checksum = checksums[idx]
        /\ \A j \in Positions : (calls[j] > 0) <=> (j <= idx)

\* A Match on a token that is not the last one.
C2_Witness ==
    /\ outcome.kind = "MatchFound"
    /\ idx < totalChecksums
    /\ calls[idx + 1] = 0

\* C3: a token whose first lookup failed was submitted exactly once.
C3_ShortCircuit ==
    \A i \in Positions :
        (Len(hist[i]) >= 1 /\ hist[i][1] # "usable") => calls[i] = 1

\* The first lookup of the first token failed and the run went on to the
\* second token.
C3_Witness ==
    /\ totalChecksums = 2
    /\ hist[1] = <<"transport">>
    /\ calls[1] = 1
    /\ calls[2] >= 1

\* A lookup of the token at position i fails in this step.
FailsAt(i) ==
    /\ Len(hist'[i]) = Len(hist[i]) + 1
    /\ hist'[i][Len(hist'[i])] # "usable"

\* C4: a token with a failed attempt (the first, or the second after a good
\* first) is in the Failure Sink, and the step of the failure raises the
\* processed count by exactly one.
C4_FailureAccounting ==
    /\ [](\A i \in Positions :
            (\E k \in 1..Len(hist[i]) : hist[i][k] # "usable")
                => checksums[i] \in SinkTokens)
    /\ [][\A i \in Positions :
            FailsAt(i) =>
                /\ processedCount' = processedCount + 1
                /\ checksums[i] \in SinkTokens']_vars

\* A token whose second attempt failed after a good first one.
C4_Witness ==
    \E i \in Positions :
        /\ hist[i] = <<"usable", "transport">>
        /\ checksums[i] \in SinkTokens
        /\ processedCount = i

\* C5: at the end of every run the Failure Sink was opened once and closed
\* exactly once.
C5_SinkClosedOnce ==
    Ended => (sinkOpened = 1 /\ sinkEnded = 1)

\* The tokens, in sequence order, of the positions up to i at which a
\* lookup attempt failed at the transport or server level.
RECURSIVE TransportFailures(_)
TransportFailures(i) ==
    IF i = 0 THEN <<>>
    ELSE IF \E k \in 1..Len(hist[i]) : hist[i][k] = "transport"
         THEN Append(TransportFailures(i - 1), checksums[i])
         ELSE TransportFailures(i - 1)

\* C6: at the end of a run the Failure Sink holds, in sequence order,
\* exactly the tokens with a lookup attempt that failed at the transport or
\* server level.
C6_SinkIsTransportFailures ==
    Ended => sinkWrites = TransportFailures(totalChecksums)

\* Every token of a non-empty sequence had two usable replies whose keys
\* do not match.
AllNoMatch ==
    /\ totalChecksums >= 1
    /\ \A i \in Positions :
        /\ hist[i] = <<"usable", "usable">>
        /\ verdict[i] = "NoMatch"

\* C7: when every token of the run had both lookups succeed with keys that
\* do not match, the run ends Exhausted, the processed count is the number
\* of tokens and the Failure Sink received nothing.
C7_Exhaustion ==
    AllNoMatch =>
        /\ pc = "exited"
        /\ outcome.kind = "Exhausted"
        /\ processedCount = totalChecksums
        /\ sinkWrites = <<>>

\* Two tokens, each with two good replies that do not match.
C7_Witness ==
    /\ AllNoMatch
    /\ totalChecksums = 2
    /\ outcome.kind = "Exhausted"

\* Every lookup made for every token of a non-empty sequence failed.
AllFailed ==
    /\ totalChecksums >= 1
    /\ \A i \in Positions :
        /\ Len(hist[i]) >= 1
        /\ \A k \in 1..Len(hist[i]) : hist[i][k] # "usable"

\* C8: when every lookup of every token fails, the run ends Exhausted, the
\* processed count is the number of tokens and the Failure Sink received
\* each token occurrence exactly once, in order.
C8_AllFailure ==
    AllFailed =>
        /\ pc = "exited"
        /\ outcome.kind = "Exhausted"
        /\ processedCount = totalChecksums
        /\ sinkWrites = checksums

\* Two tokens whose lookups all failed.
C8_Witness ==
    /\ AllFailed
    /\ totalChecksums = 2
    /\ sinkWrites = checksums

\* C9: the step that declares a Match for the token at idx reports that
\* token with the payload of its first lookup, and leaves the processed
\* count at the number of tokens before it.
C9_MatchReport ==
    /\ [][(pc = "await2" /\ outcome'.kind = "MatchFound") =>
            /\ outcome' = Report("MatchFound", checksums[idx], lastReply.body)
            /\ processedCount' = idx - 1
            /\ pc' = "exited"]_vars
    /\ [](outcome.kind = "MatchFound" =>
            /\ outcome.result = response1
            /\ processedCount = idx - 1)

\* A Match on the second token, the two payloads differing.
C9_Witness ==
    /\ outcome.kind = "MatchFound"
    /\ idx = 2
    /\ processedCount = 1
    /\ outcome.result = response1
    /\ response1 # response2

\* How a run whose report file was read has ended.
EndsAs(kind) == Ended /\ pc # "rejected" /\ outcome.kind = kind

\* C10 as stated: a run over a token sequence ends with a MatchFound or an
\* Exhausted report, and with Exhausted whenever no token matched, a
\* sequence of zero tokens included.
C10_TwoEndings ==
    (Ended /\ pc # "rejected") =>
        /\ outcome.kind \in {"MatchFound", "Exhausted"}
        /\ ((\A i \in Positions : verdict[i] # "Match") => outcome.kind = "Exhausted")

\* C10: when every lookup returns, a run whose report file is read ends,
\* and it ends in exactly one of three ways: MatchFound on the first token
\* whose replies match, Exhausted after the last token of a non-empty
\* sequence without a match, or, with zero tokens, the report that no
\* checksum was found, with no Exhausted report.
C10_Termination ==
    /\ <>Ended
    /\ []((Ended /\ pc # "rejected") =>
            \/ /\ EndsAs("MatchFound")
               /\ pc = "exited"
               /\ verdict[idx] = "Match"
               /\ \A i \in 1..(idx - 1) : verdict[i] \in {"TransientFailure", "NoMatch"}
            \/ /\ EndsAs("Exhausted")
               /\ pc = "exited"
               /\ totalChecksums >= 1
               /\ \A i \in Positions : verdict[i] \in {"TransientFailure", "NoMatch"}
            \/ /\ EndsAs("NoChecksums")
               /\ pc = "returned"
               /\ totalChecksums = 0)

\* A file with lines but no token: the run ends without an Exhausted report.
C10_Witness ==
    /\ EndsAs("NoChecksums")
    /\ fileLines # <<>>
    /\ totalChecksums = 0

\* C11: when the report file is missing the run aborts with no lookup
\* submitted, no token processed and the Failure Sink file never opened.
C11_NoPartialOutput ==
    (pc = "rejected" /\ ~fileExists) =>
        /\ sinkOpened = 0
        /\ processedCount = 0
        /\ calls = <<>>

\* The tokens of the lines that split on "," into exactly two fields, the
\* second one non-empty after trimming: that field, trimmed, in file order.
RECURSIVE QualifyingTokens(_)
QualifyingTokens(lines) ==
    IF lines = <<>> THEN <<>>
    ELSE LET parts == Split(Head(lines))
         IN  IF Len(parts) = 2 /\ Trim(parts[2]) # <<>>
             THEN <<Trim(parts[2])>> \o QualifyingTokens(Tail(lines))
             ELSE QualifyingTokens(Tail(lines))

\* C12: the parsed tokens are exactly the trimmed second fields of the
\* qualifying lines, in file order, and none of them is the empty string.
C12_ParsedTokens ==
    pc \in {"await1", "await2", "exited", "returned"} =>
        /\ checksums = QualifyingTokens(fileLines)
        /\ \A i \in 1..Len(checksums) : checksums[i] # <<>>

\* The number of token positions with a reply that failed at the transport
\* or server level.
TransportFailedCount ==
    Cardinality({ i \in Positions :
                    \E k \in 1..Len(hist[i]) : hist[i][k] = "transport" })

\* C13: a lookup is taken for a failure exactly when the exchange ended
\* with a non-OK status, a transport error or an unparseable body: a first
\* reply of OK status with a parseable body is followed by the second
\* lookup, a failed first reply is not, and the Failure Sink has one entry
\* per token with such a failed exchange.
C13_FailureClassification ==
    /\ \A i \in Positions :
        Len(hist[i]) >= 1 =>
            IF hist[i][1] = "transport" THEN calls[i] = 1 ELSE calls[i] = 2
    /\ Len(sinkWrites) = TransportFailedCount

\* C14: a Match is never produced on keys that are not strings.
C14_NonStringKeyNoMatch ==
    outcome.kind = "MatchFound" =>
        /\ GetKey(response1).t = "str"
        /\ GetKey(response2).t = "str"

\* The number of failed replies of the token at position i.
FailedReplies(i) ==
    Cardinality({ k \in 1..Len(hist[i]) : hist[i][k] # "usable" })

\* The tokens, in sequence order, of the positions up to i with a failed
\* reply.
RECURSIVE FailedTokens(_)
FailedTokens(i) ==
    IF i = 0 THEN <<>>
    ELSE IF FailedReplies(i) > 0
         THEN Append(FailedTokens(i - 1), checksums[i])
         ELSE FailedTokens(i - 1)

\* C15 as stated: a token whose lookups fail is logged once per failing
\* side, twice: when every lookup of every token fails the Failure Sink
\* holds two entries per token, each token counted once.
C15_LoggedTwice ==
    (Ended /\ AllFailed) =>
        /\ Len(sinkWrites) = 2 * totalChecksums
        /\ processedCount = totalChecksums

\* C15: the Failure Sink gets one entry per failed attempt, and no token
\* has two failed attempts, since a failed first lookup skips the second:
\* a token with a failed lookup is appended exactly once, in sequence
\* order, and counts once as processed.
C15_LoggedOnce ==
    /\ \A i \in Positions : FailedReplies(i) <= 1
    /\ sinkWrites = FailedTokens(totalChecksums)
    /\ \A i \in Positions : FailedReplies(i) = 1 => processedCount >= i

\* One token failed on its first lookup, the next on its second.
C15_Witness ==
    /\ totalChecksums = 2
    /\ hist[1] = <<"transport">>
    /\ hist[2] = <<"usable", "transport">>
    /\ Len(sinkWrites) = 2
    /\ processedCount = 2

\* The lookups sent for the positions up to i and not yet answered.
RECURSIVE Outstanding(_)
Outstanding(i) ==
    IF i = 0 THEN 0 ELSE Outstanding(i - 1) + (calls[i] - Len(hist[i]))

\* C16: at most one lookup is outstanding; the second lookup of a token is
\* sent only once its first reply is in, and the first lookup of the next
\* token only once the current token is done: all its lookups answered,
\* its decision taken and its count made.
C16_OneOutstanding ==
    /\ inflight = Outstanding(totalChecksums)
    /\ inflight <= 1
    /\ \A i \in Positions : calls[i] >= 2 => Len(hist[i]) >= 1
    /\ \A i \in Positions :
        (i + 1 \in Positions /\ calls[i + 1] >= 1) =>
            /\ Len(hist[i]) = calls[i]
            /\ verdict[i] # "pending"
            /\ processedCount >= i

\* The second token waits for its second reply, the first one being done.
C16_Witness ==
    /\ pc = "await2"
    /\ idx = 2
    /\ inflight = 1
    /\ calls = <<2, 2>>
    /\ Len(hist[1]) = 2

\* The tokens whose processing is complete without a Match.
DoneWithoutMatch ==
    { i \in Positions : verdict[i] \in {"TransientFailure", "NoMatch"} }

\* C17: the processed count lies between 0 and the number of tokens, is
\* the number of tokens done without a Match, never decreases and moves by
\* at most one per step.
C17_ProcessedCount ==
    /\ [](/\ processedCount >= 0
          /\ processedCount <= totalChecksums
          /\ processedCount = Cardinality(DoneWithoutMatch))
    /\ [][processedCount' \in {processedCount, processedCount + 1}]_vars

\* Both tokens of a run are done, one failed and one without a match.
C17_Witness ==
    /\ totalChecksums = 2
    /\ processedCount = 2
    /\ \E i, j \in Positions :
        verdict[i] = "TransientFailure" /\ verdict[j] = "NoMatch"

\* The lookups sent for the positions up to i.
RECURSIVE Submitted(_)
Submitted(i) == IF i = 0 THEN 0 ELSE Submitted(i - 1) + calls[i]

\* C18: no token is submitted more than twice, each submission gets one
\* reply at most, no position after the loop's is submitted, a run sends
\* at most two lookups per token, the loop never steps back, and a token
\* whose decision is taken is never submitted again.
C18_NoRetry ==
    /\ [](/\ \A i \in Positions :
                /\ calls[i] <= 2
                /\ Len(hist[i]) <= calls[i]
                /\ (i > idx => calls[i] = 0)
          /\ Submitted(totalChecksums) <= 2 * totalChecksums)
    /\ [][/\ idx' >= idx
          /\ \A i \in Positions :
                verdict[i] # "pending" => calls'[i] = calls[i]]_vars

\* A run over, its first token failed once, its second submitted twice.
C18_Witness ==
    /\ pc = "exited"
    /\ calls = <<1, 2>>
    /\ verdict[1] = "TransientFailure"
    /\ Submitted(totalChecksums) = 3

\* C19: when the run ends by match or by exhaustion every token written to
\* the Failure Sink has reached the file.
C19_NoLostWrites ==
    pc = "exited" => sinkFlushed = Len(sinkWrites)

====
